---- MODULE Spec2Model ----
(***************************************************************************)
(* Session / token lifecycle and verification-code state machine of the    *)
(* mobile-auth backend (AuthController, JWTService, EmailService).         *)
(*                                                                         *)
(* Every request handler is split at its awaits: one action per database   *)
(* round trip, so that two in-flight requests interleave exactly where the *)
(* Node event loop lets them.  Time is counted in minutes.                 *)
(***************************************************************************)
EXTENDS Integers, Sequences, FiniteSets, TLC

\* ------------------------------------------------------------------ bounds
NumProcs == 2
MaxTokens == 3
MaxCodes == 2
MaxTicks == 1
RandDen == 2
MaxStarts == 2
MaxSweeps == 2

\* ------------------------------------------------------- program constants
CodeTTL == 15
RefreshDays == 7
AccessTTL == 15
CodeBase == 100000
CodeSpan == 900000

\* A calendar day on the server's wall clock: setDate(getDate() + n) moves the
\* local date and time n of these ahead.
MinutesPerDay == 24 * 60

\* The server's zone (process.env.TZ): from minute DstStart to minute DstEnd
\* the wall clock runs DstShift minutes ahead of standard time, as it does in
\* America/New_York between March and November.  A zone without daylight
\* saving behaves as this one does far from both changes.
DstShift == 60
DstStart == 100 * MinutesPerDay
DstEnd == 300 * MinutesPerDay
\* The instants at which a run begins: in a stretch without a change of the
\* offset, three days before daylight saving starts, three days before it ends.
Epochs == {0, DstStart - 3 * MinutesPerDay, DstEnd - 3 * MinutesPerDay}

JWT_SECRET == "default-secret-key"

Procs == 1..NumProcs
Emails == {"a@x.com", "b@x.com"}
Identities == {[sub |-> 1, email |-> "a@x.com"], [sub |-> 2, email |-> "b@x.com"]}
\* The clock advances up to a deadline or a minute past it; for the codes the
\* deadline is a code's lifetime.
CodeTicks == {CodeTTL, CodeTTL + 1}

VARIABLES
  now,        \* wall clock (new Date()), minutes
  ticks,      \* number of clock advances so far
  users,      \* rows of table users
  sessions,   \* rows of table sessions
  codes,      \* rows of table verification_codes
  blacklist,  \* JWTService.tokenBlacklist
  nextSid,    \* next sessions.id the store hands out
  fate,       \* fate[t]: what became of refresh token t (history)
  logins,     \* logins[e]: user writes done by each login path (history)
  issuedAT,   \* access tokens handed to clients
  accepts,    \* accepts[rid]: verifyCode calls that returned true on row rid (history)
  wins,       \* wins[t]: refresh calls presenting token t that were answered with tokens (history)
  req,        \* req[p]: the request process p is serving, with its locals
  cleaner,    \* EmailService.cleanupInterval and the sweep it has in flight
  last        \* the response the step just taken sent, if it sent one

vars == <<now, ticks, users, sessions, codes, blacklist, nextSid,
          fate, logins, issuedAT, accepts, wins, req, cleaner, last>>

\* ------------------------------------------------------------ empty values
NoUser == [id |-> 0, email |-> "", googleId |-> 0, loginCount |-> 0]
NoToken == [userId |-> 0, email |-> "", iat |-> 0, secret |-> ""]
NoCode == <<>>
\* cleanupInterval = null, no cleanupExpiredCodes call pending.  sweeps holds,
\* for every call whose delete has not returned, the clock that call read;
\* failed records that a delete has thrown (history), raised that an error
\* left cleanupExpiredCodes; timers counts the intervals set and not cleared,
\* started the calls of startCleanupSchedule (history).
NoCleaner == [interval |-> FALSE, sweeps |-> <<>>, failed |-> FALSE, raised |-> FALSE,
              timers |-> 0, started |-> 0]

\* The locals of a handler; clock is the new Date() it read at its start,
\* scheme the first word of the Authorization header it was sent.
Idle == [op |-> "none", pc |-> "idle", email |-> "", sub |-> 0, code |-> NoCode,
         tok |-> 0, at |-> NoToken, uid |-> 0, cnt |-> 0, rowId |-> 0, newTok |-> 0,
         expiry |-> 0, isValid |-> FALSE, outAT |-> NoToken, obs |-> "",
         clock |-> 0, scheme |-> ""]

\* A response: the handler and the arguments it was called with, its status
\* code, the refresh token in the payload, and whether the handler's last write
\* found a row (history).
NoResponse == [op |-> "none", email |-> "", code |-> NoCode, tok |-> 0, at |-> NoToken,
               result |-> "", outRT |-> 0, hit |-> FALSE, obs |-> ""]

\* A new request takes the first free slot (the slots are interchangeable).
Free(p) == req[p].pc = "idle" /\ \A q \in Procs : q < p => req[q].pc # "idle"

\* Faulty variant: an error response carries the refresh token minted so far.
M_DoneLeaksToken(r, res) ==
  [op |-> r.op, email |-> r.email, code |-> r.code, tok |-> r.tok,
   at |-> r.at, result |-> res, outRT |-> r.newTok, hit |-> FALSE, obs |-> r.obs]

\* The response to request r with status res and no tokens.
Done(r, res) == [op |-> r.op, email |-> r.email, code |-> r.code, tok |-> r.tok,
                 at |-> r.at, result |-> res, outRT |-> 0, hit |-> FALSE, obs |-> r.obs]

\* Process p answers and is free for the next request.
Answer(p, resp) == req' = [req EXCEPT ![p] = Idle] /\ last' = resp

\* Process p goes on to its next await; nothing is sent.
Busy(p, r) == req' = [req EXCEPT ![p] = r] /\ last' = NoResponse

\* ------------------------------------------------------------ Token Codec
\* Faulty variant: only userId is required of the payload.
M_PayloadOkIdOnly(userId, email) == userId # 0

\* JWTService.signAccessToken rejects a payload without userId or email.
PayloadOk(userId, email) == userId # 0 /\ email # ""

\* sign(payload, secret, {expiresIn}) throws when the payload carries an exp of
\* its own beside the expiresIn option (exp 0: the payload carries none).
SignOptionsOk(exp) == exp = 0

\* sign(payload, JWT_SECRET, {expiresIn: '15m'}): the claims, the issue time
\* and the key that signed them.
signAccessToken(userId, email, t) ==
  [userId |-> userId, email |-> email, iat |-> t, secret |-> JWT_SECRET]

TokenExp(token) == token.iat + AccessTTL

blacklistToken(bl, token) == bl \cup {token}

\* Faulty variant: a revoked token revokes every token of its user.
M_isTokenBlacklistedByUser(bl, token) == \E b \in bl : b.userId = token.userId

isTokenBlacklisted(bl, token) == token \in bl

\* Faulty variant: a token is still accepted in the minute its exp names.
M_verifyAccessTokenLateExpiry(token, t, bl) ==
  IF isTokenBlacklisted(bl, token) THEN "TOKEN_REVOKED"
  ELSE IF token.secret # JWT_SECRET THEN "INVALID_TOKEN"
  ELSE IF t > TokenExp(token) THEN "TOKEN_EXPIRED"
  ELSE IF ~PayloadOk(token.userId, token.email) THEN "INVALID_TOKEN_PAYLOAD"
  ELSE "OK"

\* JWTService.verifyAccessToken: the code of the error it throws, or "OK".
verifyAccessToken(token, t, bl) ==
  IF isTokenBlacklisted(bl, token) THEN "TOKEN_REVOKED"
  ELSE IF token.secret # JWT_SECRET THEN "INVALID_TOKEN"
  ELSE IF t >= TokenExp(token) THEN "TOKEN_EXPIRED"
  ELSE IF ~PayloadOk(token.userId, token.email) THEN "INVALID_TOKEN_PAYLOAD"
  ELSE "OK"

\* verify(token, JWT_SECRET) as TokenPayload: what verifyAccessToken returns when
\* it does not throw: the signed claims with the iat and exp that sign added.
NoPayload == [userId |-> 0, email |-> "", iat |-> 0, exp |-> 0]

DecodedPayload(token) ==
  [userId |-> token.userId, email |-> token.email, iat |-> token.iat, exp |-> TokenExp(token)]

\* JWTService.generateRefreshToken: 40 random bytes; successive draws differ,
\* so the draw is the first value not drawn before.
generateRefreshToken(f) == Len(f) + 1

\* gen_random_uuid() for a new verification_codes row: the first id not used before.
NextCodeId(a) == Len(a) + 1

\* Date's local-time fields: the wall clock at instant t, and the instant at
\* which the wall clock shows l.  A wall-clock time that the change of offset
\* skips or repeats is read with the offset in force before the change.
UtcOffset(t) == IF DstStart <= t /\ t < DstEnd THEN DstShift ELSE 0

LocalTime(t) == t + UtcOffset(t)

FromLocal(l) ==
  IF l < DstStart + DstShift THEN l
  ELSE IF l < DstEnd + DstShift THEN l - DstShift
  ELSE l


\* const date = new Date(); date.setDate(date.getDate() + 7): the same wall
\* clock time seven calendar days ahead.
getRefreshTokenExpiryDate(t) == FromLocal(LocalTime(t) + RefreshDays * MinutesPerDay)

\* ------------------------------------------------- Verification Code Engine
RECURSIVE Digits(_)
Digits(n) == IF n < 10 THEN <<n>> ELSE Append(Digits(n \div 10), n % 10)

\* Faulty variant: the draw is not lifted above 100000.
M_generateVerificationCodeUnpadded(k) == Digits((k * CodeSpan) \div RandDen)

\* Math.floor(100000 + Math.random() * 900000).toString(), Math.random() = k / RandDen
generateVerificationCode(k) == Digits(CodeBase + (k * CodeSpan) \div RandDen)

CodeExpiry(t) == t + CodeTTL

\* Faulty variant: a new code replaces the codes stored for its email.
M_InsertCodeReplaces(cs, row) == {r \in cs : r.email # row.email} \cup {row}

\* insert into verification_codes values (row)
InsertCode(cs, row) == cs \cup {row}

\* Faulty variant: the select finds nothing.
M_CodeMatchesNone(r, e, c, t) == FALSE

\* Faulty variant: the select does not filter on used = false.
M_CodeMatchesIgnoresUsed(r, e, c, t) ==
  r.email = e /\ r.code = c /\ r.expiresAt > t

\* Faulty variant: a row is still accepted at the instant it expires.
M_CodeMatchesAtExpiry(r, e, c, t) ==
  r.email = e /\ r.code = c /\ r.used = FALSE /\ r.expiresAt >= t

\* Faulty variant: the select does not compare the code.
M_CodeMatchesAnyCode(r, e, c, t) ==
  r.email = e /\ r.used = FALSE /\ r.expiresAt > t

\* where email = e and code = c and used = false and expires_at > t
CodeMatches(r, e, c, t) ==
  r.email = e /\ r.code = c /\ r.used = FALSE /\ r.expiresAt > t

\* Faulty variant: the update that marks the row is left out.
M_MarkUsedSkipped(cs, rid) == cs

\* update verification_codes set used = true where id = rid
MarkUsed(cs, rid) == {IF r.id = rid THEN [r EXCEPT !.used = TRUE] ELSE r : r \in cs}

\* Faulty variant: the sweep spares the rows that were used.
M_DeleteExpiredUnusedOnly(cs, t) == {r \in cs : ~(r.expiresAt < t /\ ~r.used)}

\* delete from verification_codes where expires_at < t
DeleteExpiredCodes(cs, t) == {r \in cs : ~(r.expiresAt < t)}

\* --------------------------------------------------------- Credential Store
HasUser(us, e) == \E u \in us : u.email = e

SelectUserByEmail(us, e) == IF HasUser(us, e) THEN CHOOSE u \in us : u.email = e ELSE NoUser

\* Faulty variant: the store has no unique constraint on users.
M_InsertUserNoUnique(us, e, g) == TRUE

\* unique(email), unique(google_id); a null google_id never collides
InsertUserOk(us, e, g) ==
  /\ ~HasUser(us, e)
  /\ g = 0 \/ ~(\E u \in us : u.googleId = g)

NewUser(us, e, g) == [id |-> Cardinality(us) + 1, email |-> e, googleId |-> g, loginCount |-> 1]

\* Faulty variant: the update writes the insert's loginCount: 1.
M_IncrementLoginResets(us, uid) ==
  {IF u.id = uid THEN [u EXCEPT !.loginCount = 1] ELSE u : u \in us}

\* update users set login_count = login_count + 1 where id = uid
IncrementLogin(us, uid) ==
  {IF u.id = uid THEN [u EXCEPT !.loginCount = @ + 1] ELSE u : u \in us}

\* update users set login_count = n where id = uid
SetLoginCount(us, uid, n) ==
  {IF u.id = uid THEN [u EXCEPT !.loginCount = n] ELSE u : u \in us}

UserById(us, uid) == CHOOSE u \in us : u.id = uid

\* Faulty variant: a lookup that finds nothing falls back to every session.
M_SessionsWithTokenAny(ss, tok) ==
  IF {s \in ss : s.refreshToken = tok} = {} THEN ss ELSE {s \in ss : s.refreshToken = tok}

\* select from sessions where refresh_token = tok
SessionsWithToken(ss, tok) == {s \in ss : s.refreshToken = tok}

\* new Date() > session.expiresAt
SessionExpired(s, t) == t > s.expiresAt

\* Faulty variant: the update extends the session but leaves its refresh token.
M_RotateSessionKeepsToken(ss, tok, newTok, exp) ==
  {IF s.refreshToken = tok THEN [s EXCEPT !.expiresAt = exp] ELSE s : s \in ss}

\* update sessions set refresh_token = newTok, expires_at = exp where refresh_token = tok
RotateSession(ss, tok, newTok, exp) ==
  {IF s.refreshToken = tok THEN [s EXCEPT !.refreshToken = newTok, !.expiresAt = exp]
   ELSE s : s \in ss}

\* Faulty variant: the delete has no WHERE clause.
M_DeleteEverySession(ss, uid) == {}

\* Faulty variant: logout deletes one session of the user, not all of them.
M_DeleteOneSession(ss, uid) ==
  {s \in ss : s.userId # uid \/ \E x \in ss : x.userId = uid /\ x.id < s.id}

\* delete from sessions where user_id = uid
DeleteUserSessions(ss, uid) == {s \in ss : s.userId # uid}

\* ------------------------------------------------------------------ history
SetFate(f, toks, what) == [t \in DOMAIN f |-> IF t \in toks THEN what ELSE f[t]]

CountLogin(l, e, path) == [l EXCEPT ![e][path] = @ + 1]

Bump(q, i) == [q EXCEPT ![i] = @ + 1]

\* -------------------------------------------------------------------- Init
\* The process starts at instant t: empty tables, empty registry.
InitAt(t) ==
  /\ now = t
  /\ ticks = 0
  /\ users = {}
  /\ sessions = {}
  /\ codes = {}
  /\ blacklist = {}
  /\ nextSid = 1
  /\ fate = <<>>
  /\ logins = [e \in Emails |-> [fed |-> 0, mail |-> 0]]
  /\ issuedAT = {}
  /\ accepts = <<>>
  /\ wins = <<>>
  /\ req = [p \in Procs |-> Idle]
  /\ cleaner = NoCleaner
  /\ last = NoResponse

Init == \E t \in Epochs : InitAt(t)

\* A start at which no change of the zone's offset is near.
InitQuiet == InitAt(0)

\* The deadlines of the sessions: the expiresAt of every stored row and of
\* every row about to be written.
SessionDeadlines ==
  {s.expiresAt : s \in sessions}
    \cup {req[p].expiry : p \in {q \in Procs : req[q].op \in {"google", "refresh"}
                                                   /\ req[q].pc \in {"insert", "update"}}}

\* The clock advances by an access token's lifetime, or up to a session's
\* deadline or a minute past it.
SessionTicks ==
  {AccessTTL} \cup {d - now + k : d \in {x \in SessionDeadlines : x >= now}, k \in {0, 1}}

\* The clock moves between any two steps, by one of the amounts in steps.
\* (Before a row is stored or about to be, a later start is the same run.)
Tick(steps) ==
  /\ ticks < MaxTicks
  /\ users # {} \/ codes # {} \/ \E p \in Procs : req[p].op = "request"
  /\ \E d \in steps : d > 0 /\ now' = now + d
  /\ ticks' = ticks + 1
  /\ last' = NoResponse
  /\ UNCHANGED <<cleaner, users, sessions, codes, blacklist, nextSid, fate, logins,
                 issuedAT, accepts, wins, req>>

\* ----------------------------------------------- AuthController.googleCallback
\* The provider returned identity id; select the user by email.
GoogleSelectUser(p) ==
  /\ Free(p)
  /\ Len(fate) < MaxTokens
  /\ \E id \in Identities :
       Busy(p, [Idle EXCEPT !.op = "google", !.pc = "upsert", !.email = id.email,
                            !.sub = id.sub, !.uid = SelectUserByEmail(users, id.email).id])
  /\ UNCHANGED <<cleaner, now, ticks, users, sessions, codes, blacklist, nextSid,
                 fate, logins, issuedAT, accepts, wins>>

\* The authorization code was no string, or a provider call threw: the catch
\* block answers every Error with GOOGLE_CALLBACK_FAILED.
GoogleFail(p) ==
  /\ Free(p)
  /\ Answer(p, Done([Idle EXCEPT !.op = "google"], "GOOGLE_CALLBACK_FAILED"))
  /\ UNCHANGED <<cleaner, now, ticks, users, sessions, codes, blacklist, nextSid,
                 fate, logins, issuedAT, accepts, wins>>

\* Insert the user (loginCount 1) or bump its login stats; then mint the pair,
\* tok being the value generateRefreshToken returns.
GoogleUpsert(p, tok) ==
  LET r == req[p] IN
  /\ r.op = "google" /\ r.pc = "upsert"
  /\ IF r.uid = 0 /\ ~InsertUserOk(users, r.email, r.sub)
       THEN \* unique violation: the insert throws
            /\ Answer(p, Done(r, "GOOGLE_CALLBACK_FAILED"))
            /\ UNCHANGED <<users, fate, wins, logins>>
       ELSE LET us == IF r.uid = 0
                        THEN users \cup {NewUser(users, r.email, r.sub)}
                        ELSE IncrementLogin(users, r.uid)
                u == SelectUserByEmail(us, r.email)
            IN /\ Len(fate) < MaxTokens
               /\ users' = us
               /\ logins' = CountLogin(logins, r.email, "fed")
               /\ fate' = IF tok \in DOMAIN fate THEN fate ELSE Append(fate, "fresh")
               /\ wins' = IF tok \in DOMAIN wins THEN wins ELSE Append(wins, 0)
               /\ Busy(p, [r EXCEPT !.pc = "insert", !.uid = u.id,
                             !.outAT = signAccessToken(u.id, u.email, now),
                             !.newTok = tok,
                             !.expiry = getRefreshTokenExpiryDate(now)])
  /\ UNCHANGED <<cleaner, now, ticks, sessions, codes, blacklist, nextSid, issuedAT, accepts>>

\* The 40 random bytes differ from every earlier draw.
GoogleUpsertUser(p) == GoogleUpsert(p, generateRefreshToken(fate))

\* The 40 random bytes are any value, one drawn before included.
GoogleUpsertUserDraw(p) ==
  /\ nextSid <= MaxTokens
  /\ \E tok \in 1..generateRefreshToken(fate) : GoogleUpsert(p, tok)

\* insert into sessions; redirect to the app with both tokens.
GoogleInsertSession(p) ==
  LET r == req[p] IN
  /\ r.op = "google" /\ r.pc = "insert"
  /\ sessions' = sessions \cup {[id |-> nextSid, userId |-> r.uid,
                                 refreshToken |-> r.newTok, expiresAt |-> r.expiry]}
  /\ nextSid' = nextSid + 1
  /\ fate' = SetFate(fate, {r.newTok}, "stored")
  /\ issuedAT' = issuedAT \cup {r.outAT}
  /\ Answer(p, [Done(r, "OK") EXCEPT !.outRT = r.newTok])
  /\ UNCHANGED <<cleaner, now, ticks, users, codes, blacklist, logins, accepts, wins>>

\* The insert into sessions throws (the store is down, the user row is gone):
\* the catch block answers GOOGLE_CALLBACK_FAILED; nothing is rolled back.
GoogleInsertFail(p) ==
  LET r == req[p] IN
  /\ r.op = "google" /\ r.pc = "insert"
  /\ Answer(p, Done(r, "GOOGLE_CALLBACK_FAILED"))
  /\ UNCHANGED <<cleaner, now, ticks, users, sessions, codes, blacklist, nextSid,
                 fate, logins, issuedAT, accepts, wins>>

\* ------------------------------------------------------- GET /auth/callback
\* What the query string can hold for code: nothing, an empty value, a
\* repeated parameter (parsed as an array), or one non-empty string.
CallbackCodes == {"missing", "empty", "list", "string"}

\* query('code').isString().notEmpty()
CallbackCodeValid(code) == code = "string"

\* googleCallback's own test, typeof code !== 'string': the INVALID_AUTH_CODE
\* it throws is an Error, which the catch block answers as
\* GOOGLE_CALLBACK_FAILED.
googleCallbackCodeCheck(code) ==
  IF code \in {"missing", "list"} THEN "GOOGLE_CALLBACK_FAILED" ELSE "OK"

\* The route's validate(...): a failed rule is passed to the error handler as
\* VALIDATION_ERROR, otherwise the controller is next.
CallbackValidate(p) ==
  /\ Free(p)
  /\ Len(fate) < MaxTokens
  /\ \E code \in CallbackCodes :
       LET start == [Idle EXCEPT !.op = "google", !.obs = code] IN
       IF CallbackCodeValid(code) THEN Busy(p, [start EXCEPT !.pc = "controller"])
       ELSE Answer(p, Done(start, "VALIDATION_ERROR"))
  /\ UNCHANGED <<cleaner, now, ticks, users, sessions, codes, blacklist, nextSid,
                 fate, logins, issuedAT, accepts, wins>>

\* googleCallback up to the user select: the code test, the exchange with the
\* provider (which returns an identity or throws), the select by email.
CallbackController(p) ==
  LET r == req[p] IN
  /\ r.op = "google" /\ r.pc = "controller"
  /\ IF googleCallbackCodeCheck(r.obs) # "OK"
       THEN Answer(p, Done(r, googleCallbackCodeCheck(r.obs)))
       ELSE \/ Answer(p, Done(r, "GOOGLE_CALLBACK_FAILED"))
            \/ \E id \in Identities :
                 Busy(p, [r EXCEPT !.pc = "upsert", !.email = id.email, !.sub = id.sub,
                                   !.uid = SelectUserByEmail(users, id.email).id])
  /\ UNCHANGED <<cleaner, now, ticks, users, sessions, codes, blacklist, nextSid,
                 fate, logins, issuedAT, accepts, wins>>

\* ------------------------------------------------- AuthController.refreshToken
\* What the presented token is at the moment of the lookup (history): not
\* in the body, held by no row, or held by a row whose expiresAt is ahead of
\* the clock ("valid"), behind it ("expired") or equal to it ("due").
RefreshObs(tok) ==
  LET m == SessionsWithToken(sessions, tok) IN
  IF tok = 0 THEN "missing"
  ELSE IF m = {} THEN fate[tok]
  ELSE IF \A s \in m : now < s.expiresAt THEN "valid"
  ELSE IF \E s \in m : SessionExpired(s, now) THEN "expired"
  ELSE "due"

\* POST /auth/refresh: validate(body.refreshToken), token 0 standing for a body
\* without one; then select session join user where refresh_token = tok, the
\* two checks, and the new pair.
RefreshSelect(p) ==
  /\ Free(p)
  /\ \E tok \in 0..Len(fate) :
       LET start == [Idle EXCEPT !.op = "refresh", !.tok = tok, !.obs = RefreshObs(tok)]
           m == SessionsWithToken(sessions, tok)
       IN IF tok = 0
            THEN /\ Answer(p, Done(start, "VALIDATION_ERROR"))
                 /\ UNCHANGED <<fate, wins>>
          ELSE IF m = {}
            THEN /\ Answer(p, Done(start, "INVALID_REFRESH_TOKEN"))
                 /\ UNCHANGED <<fate, wins>>
            ELSE \E s \in m :
                   IF SessionExpired(s, now)
                     THEN /\ Answer(p, Done(start, "REFRESH_TOKEN_EXPIRED"))
                          /\ UNCHANGED <<fate, wins>>
                     ELSE LET u == UserById(users, s.userId) IN
                          /\ Len(fate) < MaxTokens
                          /\ fate' = Append(fate, "fresh")
                          /\ wins' = Append(wins, 0)
                          /\ Busy(p, [start EXCEPT !.pc = "update", !.uid = u.id,
                                        !.outAT = signAccessToken(u.id, u.email, now),
                                        !.newTok = generateRefreshToken(fate),
                                        !.expiry = getRefreshTokenExpiryDate(now)])
  /\ UNCHANGED <<cleaner, now, ticks, users, sessions, codes, blacklist, nextSid,
                 logins, issuedAT, accepts>>

\* update sessions ... where refresh_token = tok; answer with the new pair.
RefreshUpdate(p) ==
  LET r == req[p]
      hit == SessionsWithToken(sessions, r.tok) # {}
  IN
  /\ r.op = "refresh" /\ r.pc = "update"
  /\ sessions' = RotateSession(sessions, r.tok, r.newTok, r.expiry)
  /\ fate' = IF hit /\ r.newTok # r.tok
               THEN SetFate(SetFate(fate, {r.tok}, "rotated"), {r.newTok}, "stored")
               ELSE fate
  /\ wins' = Bump(wins, r.tok)
  /\ issuedAT' = issuedAT \cup {r.outAT}
  /\ Answer(p, [Done(r, "OK") EXCEPT !.outRT = r.newTok, !.hit = hit])
  /\ UNCHANGED <<cleaner, now, ticks, users, codes, blacklist, nextSid, logins, accepts>>

\* ------------------------------------------ authenticateToken, then logout
Forged == {[userId |-> 1, email |-> "a@x.com", iat |-> now, secret |-> "other-key"]}

\* authenticateToken: the error code it answers with, or "OK" when it calls next.
\* NoToken stands for a request without a usable Bearer header.
authenticateToken(at, t, bl) ==
  IF at = NoToken THEN "INVALID_TOKEN"
  ELSE LET v == verifyAccessToken(at, t, bl) IN
       IF v \in {"OK", "TOKEN_REVOKED", "TOKEN_EXPIRED"} THEN v ELSE "INVALID_TOKEN"

\* The authenticateToken of middleware/auth.middleware.ts, on the second word
\* of the Authorization header (NoToken: no header, or no second word): 401
\* without a token, and one 403 answer for whatever verifyAccessToken throws.
authenticateTokenPlain(at, t, bl) ==
  IF at = NoToken THEN "401 Access token is required"
  ELSE IF verifyAccessToken(at, t, bl) = "OK" THEN "OK"
  ELSE "403 Invalid or expired token"

\* The first word of an Authorization header: the scheme the clients are told
\* to use, or another one.
Schemes == {"Bearer", "Basic"}

\* POST /auth/logout up to the controller's await.  The router's
\* authenticateToken (middleware/auth.middleware.ts) takes the second word of
\* the header, whatever the first; validate(body.refreshToken) follows; then
\* AuthController.logout registers that second word and issues its delete.
\* The three give way to promise jobs only, so no other handler runs between.
LogoutAuth(p) ==
  /\ Free(p)
  /\ \E at \in issuedAT \cup Forged \cup {NoToken}, scheme \in Schemes, bodyOk \in BOOLEAN :
       LET start == [Idle EXCEPT !.op = "logout", !.at = at,
                       !.scheme = IF at = NoToken THEN "" ELSE scheme,
                       !.obs = IF isTokenBlacklisted(blacklist, at) THEN "revoked" ELSE ""]
           a == authenticateTokenPlain(at, now, blacklist)
       IN IF a # "OK"
            THEN Answer(p, Done(start, a)) /\ blacklist' = blacklist
          ELSE IF ~bodyOk
            THEN Answer(p, Done(start, "VALIDATION_ERROR")) /\ blacklist' = blacklist
          ELSE /\ blacklist' = blacklistToken(blacklist, at)
               /\ Busy(p, [start EXCEPT !.pc = "delete"])
  /\ UNCHANGED <<cleaner, now, ticks, users, sessions, codes, nextSid,
                 fate, logins, issuedAT, accepts, wins>>

\* delete from sessions where user_id = req.user.userId; answer success.
LogoutDelete(p) ==
  LET r == req[p]
      gone == {s.refreshToken : s \in {x \in sessions : x.userId = r.at.userId}}
  IN
  /\ r.op = "logout" /\ r.pc = "delete"
  /\ sessions' = DeleteUserSessions(sessions, r.at.userId)
  /\ fate' = SetFate(fate, gone, "loggedout")
  /\ Answer(p, [Done(r, "OK") EXCEPT !.hit = gone # {}])
  /\ UNCHANGED <<cleaner, now, ticks, users, codes, blacklist, nextSid, logins, issuedAT,
                 accepts, wins>>

\* ------------------------------ requestEmailVerification / sendVerificationCode
\* sendVerificationCode up to its first await: the code is drawn, the clock is
\* read (expiresAt = Date.now() + 15 minutes) and the insert is issued.
RequestCall(p) ==
  /\ Free(p)
  /\ Len(accepts) + Cardinality({q \in Procs : req[q].op = "request" /\ req[q].pc = "insert"})
       < MaxCodes
  /\ \E e \in Emails, k \in 0..(RandDen - 1) :
       Busy(p, [Idle EXCEPT !.op = "request", !.pc = "insert", !.email = e,
                            !.code = generateVerificationCode(k),
                            !.clock = now, !.expiry = CodeExpiry(now)])
  /\ UNCHANGED <<cleaner, now, ticks, users, sessions, codes, blacklist, nextSid, fate,
                 logins, issuedAT, accepts, wins>>

\* The insert commits with the expiresAt computed at the call (the handler
\* does not read it again), or the store throws and the controller's catch
\* block answers 500.
RequestInsert(p) ==
  LET r == req[p] IN
  /\ r.op = "request" /\ r.pc = "insert"
  /\ \/ /\ codes' = InsertCode(codes, [id |-> NextCodeId(accepts), email |-> r.email,
                                         code |-> r.code, expiresAt |-> r.expiry,
                                         used |-> FALSE])
        /\ accepts' = Append(accepts, 0)
        /\ Busy(p, [r EXCEPT !.pc = "send", !.clock = 0, !.expiry = 0])
     \/ /\ Answer(p, Done(r, "SEND_FAILED"))
        /\ UNCHANGED <<codes, accepts>>
  /\ UNCHANGED <<cleaner, now, ticks, users, sessions, blacklist, nextSid, fate, logins,
                 issuedAT, wins>>

\* transporter.sendMail delivers or throws, as the transport allows; the
\* controller answers 200 or, from its catch block, 500.
RequestSendWith(p, outcomes) ==
  LET r == req[p] IN
  /\ r.op = "request" /\ r.pc = "send"
  /\ \E ok \in outcomes : Answer(p, Done(r, IF ok THEN "OK" ELSE "SEND_FAILED"))
  /\ UNCHANGED <<cleaner, now, ticks, users, sessions, codes, blacklist, nextSid,
                 fate, logins, issuedAT, accepts, wins>>

RequestSend(p) == RequestSendWith(p, BOOLEAN)

\* The mail transport is down: every sendMail throws.
RequestSendFail(p) == RequestSendWith(p, {FALSE})

\* ------------------------------------ verifyEmailCode / EmailService.verifyCode
WrongCode == <<0, 0, 0, 0, 0, 1>>
\* What a caller presents: a code that some request has drawn, or a wrong one.
CodeInputs ==
  {r.code : r \in codes} \cup {req[q].code : q \in {x \in Procs : req[x].op = "request"}}
    \cup {WrongCode}

\* What the rows stored for (e, c) are when the select runs, seen with the
\* clock t that verifyCode read (history).
CodeObs(e, c, t) ==
  LET rows == {r \in codes : r.email = e /\ r.code = c}
      unused == {r \in rows : ~r.used}
  IN IF rows = {} THEN "none"
     ELSE IF unused = {} THEN (IF \E r \in rows : t < r.expiresAt THEN "used" ELSE "usedExpired")
     ELSE IF \A r \in unused : r.expiresAt <= t THEN "expired" ELSE "match"

\* verifyEmailCode calls verifyCode, which reads the clock (const now = new
\* Date()) and issues its select.
VerifyCall(p) ==
  /\ Free(p)
  /\ \E e \in Emails, c \in CodeInputs :
       Busy(p, [Idle EXCEPT !.op = "verify", !.pc = "select", !.email = e, !.code = c,
                            !.clock = now])
  /\ UNCHANGED <<cleaner, now, ticks, users, sessions, codes, blacklist, nextSid,
                 fate, logins, issuedAT, accepts, wins>>

\* verifyCode: the select runs, with the clock read at the call (which is not
\* read again).
VerifySelect(p) ==
  LET r == req[p]
      seen == [r EXCEPT !.obs = CodeObs(r.email, r.code, r.clock), !.clock = 0]
      m == {row \in codes : CodeMatches(row, r.email, r.code, r.clock)}
  IN
  /\ r.op = "verify" /\ r.pc = "select"
  /\ IF m = {}
       THEN Answer(p, Done(seen, "INVALID_CODE"))
       ELSE \E row \in m : Busy(p, [seen EXCEPT !.pc = "mark", !.rowId = row.id])
  /\ UNCHANGED <<cleaner, now, ticks, users, sessions, codes, blacklist, nextSid,
                 fate, logins, issuedAT, accepts, wins>>

\* verifyCode: mark the row used and return true.
VerifyMark(p) ==
  LET r == req[p] IN
  /\ r.op = "verify" /\ r.pc = "mark"
  /\ codes' = MarkUsed(codes, r.rowId)
  /\ accepts' = Bump(accepts, r.rowId)
  /\ Busy(p, [r EXCEPT !.pc = "selectUser", !.isValid = TRUE])
  /\ UNCHANGED <<cleaner, now, ticks, users, sessions, blacklist, nextSid, fate,
                 logins, issuedAT, wins>>

\* EmailService.verifyCode called by another caller than the login handler:
\* it has marked its row and returns true.
VerifyCodeReturn(p) ==
  LET r == req[p] IN
  /\ r.op = "verify" /\ r.pc = "selectUser"
  /\ Answer(p, Done(r, "TRUE"))
  /\ UNCHANGED <<cleaner, now, ticks, users, sessions, codes, blacklist, nextSid,
                 fate, logins, issuedAT, accepts, wins>>

\* verifyEmailCode whose verifyCode(email, code) returned true: the handler from
\* there on, for the specification that leaves the code rows out.
VerifyEmailValid(p) ==
  /\ Free(p)
  /\ Len(fate) < MaxTokens
  /\ \E e \in Emails :
       Busy(p, [Idle EXCEPT !.op = "verify", !.pc = "selectUser", !.email = e,
                            !.isValid = TRUE])
  /\ UNCHANGED <<cleaner, now, ticks, users, sessions, codes, blacklist, nextSid,
                 fate, logins, issuedAT, accepts, wins>>

\* verifyEmailCode: select the user by email.
VerifySelectUser(p) ==
  LET r == req[p] IN
  /\ r.op = "verify" /\ r.pc = "selectUser"
  /\ Busy(p, [r EXCEPT !.pc = "upsertUser",
                         !.uid = SelectUserByEmail(users, r.email).id,
                         !.cnt = SelectUserByEmail(users, r.email).loginCount])
  /\ UNCHANGED <<cleaner, now, ticks, users, sessions, codes, blacklist, nextSid,
                 fate, logins, issuedAT, accepts, wins>>

\* verifyEmailCode: insert the user or write loginCount; mint the pair; answer.
VerifyUpsertUser(p) ==
  LET r == req[p] IN
  /\ r.op = "verify" /\ r.pc = "upsertUser"
  /\ IF r.uid = 0 /\ ~InsertUserOk(users, r.email, 0)
       THEN /\ Answer(p, Done(r, "VERIFY_FAILED"))
            /\ UNCHANGED <<users, fate, wins, logins, issuedAT>>
       ELSE LET fresh == NewUser(users, r.email, 0)
                id == IF r.uid = 0 THEN fresh.id ELSE r.uid
                at == signAccessToken(id, r.email, now)
            IN /\ users' = IF r.uid = 0 THEN users \cup {fresh}
                           ELSE SetLoginCount(users, r.uid, r.cnt + 1)
               /\ logins' = CountLogin(logins, r.email, "mail")
               /\ fate' = Append(fate, "fresh")
               /\ wins' = Append(wins, 0)
               /\ issuedAT' = issuedAT \cup {at}
               /\ Answer(p, [Done(r, "OK") EXCEPT !.outRT = generateRefreshToken(fate)])
  /\ UNCHANGED <<cleaner, now, ticks, sessions, codes, blacklist, nextSid, accepts>>

\* ------------------------------------------ EmailService.cleanupExpiredCodes
\* cleanupExpiredCodes is entered: const now = new Date(), and the delete is
\* issued with that clock.
CleanupCall(c, t) == [c EXCEPT !.sweeps = Append(@, t)]

\* The pending calls without the i-th.
CleanupReturned(q, i) == [j \in 1..(Len(q) - 1) |-> IF j < i THEN q[j] ELSE q[j + 1]]

\* cleanupExpiredCodes called on its own.
Cleanup ==
  /\ Len(cleaner.sweeps) < MaxSweeps
  /\ cleaner' = CleanupCall(cleaner, now)
  /\ last' = NoResponse
  /\ UNCHANGED <<now, ticks, users, sessions, codes, blacklist, nextSid, fate,
                 logins, issuedAT, accepts, wins, req>>

\* A caller that awaits each cleanupExpiredCodes before the next.
CleanupInTurn == cleaner.sweeps = <<>> /\ Cleanup

\* Faulty variant: the catch block lets the store's error out of the call.
M_CleanupCatchRethrows(c) == [c EXCEPT !.failed = TRUE, !.raised = TRUE]

\* The catch block of cleanupExpiredCodes: the error is logged and the call
\* returns; cleanupInterval is not touched.
CleanupCatch(c) == [c EXCEPT !.failed = TRUE]

\* The awaited delete of one pending call returns: it has removed the rows
\* that had expired when the call read the clock, or the store has thrown and
\* the catch block runs.
CleanupSweepWith(outcomes) ==
  /\ \E i \in 1..Len(cleaner.sweeps), ok \in outcomes :
       LET rest == [cleaner EXCEPT !.sweeps = CleanupReturned(@, i)] IN
       IF ok THEN /\ codes' = DeleteExpiredCodes(codes, cleaner.sweeps[i])
                  /\ cleaner' = rest
             ELSE /\ codes' = codes
                  /\ cleaner' = CleanupCatch(rest)
  /\ last' = NoResponse
  /\ UNCHANGED <<now, ticks, users, sessions, blacklist, nextSid, fate,
                 logins, issuedAT, accepts, wins, req>>

CleanupSweep == CleanupSweepWith(BOOLEAN)

\* The store is up: every delete commits.
CleanupSweepOk == CleanupSweepWith({TRUE})

\* ----------------------------------------- EmailService.startCleanupSchedule
\* Faulty variant: the previous interval is not cleared.
M_TimersAfterStartNoClear(c) == c.timers + 1

\* clearInterval(this.cleanupInterval) if one is set, then setInterval: the
\* number of live intervals afterwards.
TimersAfterStart(c) == (IF c.interval THEN c.timers - 1 ELSE c.timers) + 1

\* startCleanupSchedule, when the application starts or again later: the old
\* interval is cleared, one cleanupExpiredCodes is called at once, whatever is
\* pending, and the interval for the later ones is set.
StartCleanupSchedule ==
  /\ cleaner.started < MaxStarts /\ Len(cleaner.sweeps) < MaxSweeps
  /\ cleaner' = [CleanupCall(cleaner, now) EXCEPT !.interval = TRUE,
                                                 !.timers = TimersAfterStart(cleaner),
                                                 !.started = @ + 1]
  /\ last' = NoResponse
  /\ UNCHANGED <<now, ticks, users, sessions, codes, blacklist, nextSid, fate,
                 logins, issuedAT, accepts, wins, req>>

\* stopCleanupSchedule: clearInterval and cleanupInterval = null, if one is set.
StopCleanupSchedule ==
  /\ cleaner' = [cleaner EXCEPT !.interval = FALSE,
                                !.timers = IF cleaner.interval THEN @ - 1 ELSE @]
  /\ last' = NoResponse
  /\ UNCHANGED <<now, ticks, users, sessions, codes, blacklist, nextSid, fate,
                 logins, issuedAT, accepts, wins, req>>

\* The interval's callback: one more cleanupExpiredCodes is called, whatever
\* is pending.
CleanupTimer ==
  /\ cleaner.interval /\ Len(cleaner.sweeps) < MaxSweeps
  /\ cleaner' = CleanupCall(cleaner, now)
  /\ last' = NoResponse
  /\ UNCHANGED <<now, ticks, users, sessions, codes, blacklist, nextSid, fate,
                 logins, issuedAT, accepts, wins, req>>

\* ------------------------------------------- JWTService on its own: the codec
ClaimIds == 0..2
ClaimEmails == Emails \cup {""}
\* The exp claim of a claims object ({userId, email, ...extra}): none, or one.
ClaimExps == {0, AccessTTL}
\* One minute, the last minute of an access token's life, and its whole life.
CodecTicks == {1, AccessTTL - 1, AccessTTL}

\* Process 1 holds a claims object, any of ClaimIds x ClaimEmails x ClaimExps.
InitCodec ==
  /\ now = 0 /\ ticks = 0
  /\ users = {} /\ sessions = {} /\ codes = {} /\ blacklist = {}
  /\ nextSid = 1 /\ fate = <<>> /\ accepts = <<>> /\ wins = <<>>
  /\ logins = [e \in Emails |-> [fed |-> 0, mail |-> 0]]
  /\ issuedAT = {}
  /\ \E u \in ClaimIds, e \in ClaimEmails, x \in ClaimExps :
       req = [p \in Procs |-> IF p = 1 THEN [Idle EXCEPT !.op = "codec", !.pc = "claims",
                                                        !.uid = u, !.email = e,
                                                        !.expiry = x]
                              ELSE Idle]
  /\ cleaner = NoCleaner
  /\ last = NoResponse

\* signAccessToken(claims): throws INVALID_TOKEN_PAYLOAD, or throws
\* TOKEN_SIGNING_FAILED when sign() throws, or returns the token.
CodecSign ==
  LET r == req[1] IN
  /\ r.op = "codec" /\ r.pc = "claims"
  /\ IF ~PayloadOk(r.uid, r.email)
       THEN /\ req' = [req EXCEPT ![1] = [r EXCEPT !.pc = "rejected"]]
            /\ issuedAT' = issuedAT
            /\ last' = Done(r, "INVALID_TOKEN_PAYLOAD")
     ELSE IF ~SignOptionsOk(r.expiry)
       THEN /\ req' = [req EXCEPT ![1] = [r EXCEPT !.pc = "failed"]]
            /\ issuedAT' = issuedAT
            /\ last' = Done(r, "TOKEN_SIGNING_FAILED")
       ELSE /\ req' = [req EXCEPT ![1] = [r EXCEPT !.pc = "signed",
                                            !.outAT = signAccessToken(r.uid, r.email, now)]]
            /\ issuedAT' = issuedAT \cup {signAccessToken(r.uid, r.email, now)}
            /\ last' = NoResponse
  /\ UNCHANGED <<cleaner, now, ticks, users, sessions, codes, blacklist, nextSid,
                 fate, logins, accepts, wins>>

\* The clock moves before the token is signed or while it is out.
CodecTick ==
  /\ req[1].pc \in {"claims", "signed"}
  /\ ticks < MaxTicks
  /\ \E d \in CodecTicks : now' = now + d
  /\ ticks' = ticks + 1
  /\ last' = NoResponse
  /\ UNCHANGED <<cleaner, users, sessions, codes, blacklist, nextSid, fate, logins,
                 issuedAT, accepts, wins, req>>

\* blacklistToken(token)
CodecRevoke ==
  /\ req[1].pc = "signed"
  /\ blacklist' = blacklistToken(blacklist, req[1].outAT)
  /\ last' = NoResponse
  /\ UNCHANGED <<cleaner, now, ticks, users, sessions, codes, nextSid, fate, logins,
                 issuedAT, accepts, wins, req>>

\* verifyAccessToken(token) on the signed token or a forged one: the error code
\* it throws, or "OK" and the payload it returns.
CodecVerify ==
  /\ req[1].pc = "signed"
  /\ \E tok \in {req[1].outAT} \cup Forged :
       LET v == verifyAccessToken(tok, now, blacklist) IN
       last' = [op |-> "verifyAccessToken", email |-> req[1].email, code |-> NoCode,
                tok |-> 0, at |-> tok, result |-> v, outRT |-> 0, hit |-> FALSE,
                obs |-> IF isTokenBlacklisted(blacklist, tok) THEN "revoked" ELSE "",
                payload |-> IF v = "OK" THEN DecodedPayload(tok) ELSE NoPayload]
  /\ UNCHANGED <<cleaner, now, ticks, users, sessions, codes, blacklist, nextSid,
                 fate, logins, issuedAT, accepts, wins, req>>

\* ------------------------------------- authenticateToken on a protected route
\* What a response of the middleware looks like: the token it was given,
\* whether the registry held it, and the answer ("OK" for next()).
GuardResponse(name, tok, res) ==
  [op |-> name, email |-> "", code |-> NoCode, tok |-> 0, at |-> tok, result |-> res,
   outRT |-> 0, hit |-> FALSE,
   obs |-> IF isTokenBlacklisted(blacklist, tok) THEN "revoked" ELSE ""]

GuardTokens == {req[1].outAT} \cup Forged \cup {NoToken}

\* A protected route is called with the signed token, a forged one or none.
ProtectedRoute ==
  /\ req[1].pc = "signed"
  /\ \E tok \in GuardTokens :
       last' = GuardResponse("authenticateToken", tok,
                             authenticateToken(tok, now, blacklist))
  /\ UNCHANGED <<cleaner, now, ticks, users, sessions, codes, blacklist, nextSid,
                 fate, logins, issuedAT, accepts, wins, req>>

\* The same call, served by the middleware of auth.middleware.ts.
ProtectedRoutePlain ==
  /\ req[1].pc = "signed"
  /\ \E tok \in GuardTokens :
       last' = GuardResponse("authenticateToken (auth.middleware.ts)", tok,
                             authenticateTokenPlain(tok, now, blacklist))
  /\ UNCHANGED <<cleaner, now, ticks, users, sessions, codes, blacklist, nextSid,
                 fate, logins, issuedAT, accepts, wins, req>>

\* ------------------------ router: /auth/email/request-code, /auth/email/verify
\* router.post(path, limiter, rules, validate, controller): the stack of each
\* email route, walked one middleware at a time.
EmailRoutes == {"POST /auth/email/request-code", "POST /auth/email/verify"}

\* express-rate-limit: the limiter answers 429 or calls next.
EmailLimiter(p) ==
  /\ Free(p)
  /\ \E route \in EmailRoutes, e \in Emails, c \in CodeInputs, pass \in BOOLEAN :
       LET start == [Idle EXCEPT !.op = route, !.email = e,
                       !.code = IF route = "POST /auth/email/verify" THEN c ELSE NoCode]
       IN IF pass THEN Busy(p, [start EXCEPT !.pc = "rules"])
          ELSE Answer(p, Done(start, "RATE_LIMITED"))
  /\ UNCHANGED <<cleaner, now, ticks, users, sessions, codes, blacklist, nextSid,
                 fate, logins, issuedAT, accepts, wins>>

\* The validation chains used as middleware: each runs, records what it found
\* on the request and calls next.
EmailRules(p) ==
  LET r == req[p] IN
  /\ r.op \in EmailRoutes /\ r.pc = "rules"
  /\ Busy(p, [r EXCEPT !.pc = "validate"])
  /\ UNCHANGED <<cleaner, now, ticks, users, sessions, codes, blacklist, nextSid,
                 fate, logins, issuedAT, accepts, wins>>

\* validate itself is on the stack, not validate(rules): called with
\* (req, res, next) it builds its middleware closure and returns it; the
\* closure is never run, so next is not called and nothing is sent.
EmailValidate(p) ==
  LET r == req[p] IN
  /\ r.op \in EmailRoutes /\ r.pc = "validate"
  /\ Busy(p, [r EXCEPT !.pc = "returned"])
  /\ UNCHANGED <<cleaner, now, ticks, users, sessions, codes, blacklist, nextSid,
                 fate, logins, issuedAT, accepts, wins>>

\* ---------------------------------------------------------- specifications
GoogleStep == \E p \in Procs :
  GoogleSelectUser(p) \/ GoogleFail(p) \/ GoogleUpsertUser(p) \/ GoogleInsertSession(p)

RefreshStep == \E p \in Procs : RefreshSelect(p) \/ RefreshUpdate(p)

LogoutStep == \E p \in Procs : LogoutAuth(p) \/ LogoutDelete(p)

RequestStep == \E p \in Procs : RequestCall(p) \/ RequestInsert(p) \/ RequestSend(p)

VerifyStep == \E p \in Procs :
  \/ VerifyCall(p) \/ VerifySelect(p) \/ VerifyMark(p)
  \/ VerifySelectUser(p) \/ VerifyUpsertUser(p)

\* The whole backend: the session routes, and the email controllers and the
\* cleanup schedule called directly.
Next ==
  \/ Tick(SessionTicks \cup CodeTicks)
  \/ StartCleanupSchedule \/ StopCleanupSchedule \/ CleanupTimer \/ Cleanup \/ CleanupSweep
  \/ GoogleStep \/ RefreshStep \/ LogoutStep \/ RequestStep \/ VerifyStep

Spec == Init /\ [][Next]_vars

\* The session lifecycle: federated login, refresh, logout.
NextSession == Tick(SessionTicks) \/ GoogleStep \/ RefreshStep \/ LogoutStep

SpecSession == InitQuiet /\ [][NextSession]_vars

\* EmailService on its own: sendVerificationCode, verifyCode and
\* cleanupExpiredCodes called directly, each sweep awaited, the store up.
ServiceStep == \E p \in Procs :
  \/ RequestCall(p) \/ RequestInsert(p) \/ RequestSend(p)
  \/ VerifyCall(p) \/ VerifySelect(p) \/ VerifyMark(p) \/ VerifyCodeReturn(p)

NextService == Tick(CodeTicks) \/ CleanupInTurn \/ CleanupSweepOk \/ ServiceStep

SpecService == InitQuiet /\ [][NextService]_vars

\* sendVerificationCode and verifyCode without the sweeps.
NextCodes == Tick(CodeTicks) \/ ServiceStep

SpecCodes == InitQuiet /\ [][NextCodes]_vars

\* The email-code login, its controllers called directly: request, verify, login.
NextVerify == Tick(CodeTicks) \/ RequestStep \/ VerifyStep

SpecVerify == InitQuiet /\ [][NextVerify]_vars

\* The email-code path, its controllers and the service called directly (the
\* router's email routes do not reach them, see NextRoute): request, verify
\* and login, cleanup.
NextCode == Tick(CodeTicks) \/ CleanupInTurn \/ CleanupSweepOk \/ RequestStep \/ VerifyStep

SpecCode == InitQuiet /\ [][NextCode]_vars

\* Code requests on their own: sendVerificationCode against a moving clock.
NextRequest == Tick(CodeTicks) \/ RequestStep

SpecRequest == InitQuiet /\ [][NextRequest]_vars

\* The cleanup schedule running beside code requests.
NextCleanup ==
  Tick(CodeTicks) \/ StartCleanupSchedule \/ CleanupTimer \/ CleanupSweep \/ RequestStep

SpecCleanup == InitQuiet /\ [][NextCleanup]_vars

\* Login and logout against a moving clock, without refresh.
NextLogout == Tick(SessionTicks) \/ GoogleStep \/ LogoutStep

SpecLogout == InitQuiet /\ [][NextLogout]_vars

\* Login and refresh around a change of the zone's offset: a run starts at
\* any of Epochs.
NextCalendar ==
  \/ Tick(SessionTicks) \/ RefreshStep
  \/ \E p \in Procs : GoogleSelectUser(p) \/ GoogleUpsertUser(p) \/ GoogleInsertSession(p)

SpecCalendar == Init /\ [][NextCalendar]_vars

\* Login, refresh and logout of two users with the clock standing still.
NextRows == GoogleStep \/ RefreshStep \/ LogoutStep

SpecRows == InitQuiet /\ [][NextRows]_vars

\* Tokens of every age and kind presented to a protected route.
NextGuard == CodecSign \/ CodecTick \/ CodecRevoke \/ ProtectedRoute \/ ProtectedRoutePlain

SpecGuard == InitCodec /\ [][NextGuard]_vars

\* The federated login from its route on.
NextCallback ==
  \E p \in Procs : \/ CallbackValidate(p) \/ CallbackController(p)
                   \/ GoogleUpsertUser(p) \/ GoogleInsertSession(p)

SpecCallback == InitQuiet /\ [][NextCallback]_vars

\* The cleanup schedule started, restarted and stopped, with rows to sweep.
NextSchedule ==
  \/ Tick(CodeTicks) \/ StartCleanupSchedule \/ StopCleanupSchedule
  \/ CleanupTimer \/ CleanupSweep \/ RequestStep

SpecSchedule == InitQuiet /\ [][NextSchedule]_vars

\* EmailService while the mail transport is down.
NextSendFail ==
  \/ Tick(CodeTicks)
  \/ \E p \in Procs : \/ RequestCall(p) \/ RequestInsert(p) \/ RequestSendFail(p)
                       \/ VerifyCall(p) \/ VerifySelect(p) \/ VerifyMark(p)
                       \/ VerifyCodeReturn(p)

SpecSendFail == InitQuiet /\ [][NextSendFail]_vars

\* The session lifecycle on the scale of an access token's life: a minute
\* passes, or the whole lifetime.
RevokeTicks == {1, AccessTTL}

NextRevoke ==
  \/ Tick(RevokeTicks) \/ RefreshStep \/ LogoutStep
  \/ \E p \in Procs : GoogleSelectUser(p) \/ GoogleUpsertUser(p) \/ GoogleInsertSession(p)

SpecRevoke == InitQuiet /\ [][NextRevoke]_vars

\* Both login paths side by side, with a store that may fail the session insert.
NextLogin ==
  \/ GoogleStep
  \/ \E p \in Procs : \/ GoogleInsertFail(p)
                       \/ VerifyEmailValid(p)
                       \/ VerifySelectUser(p)
                       \/ VerifyUpsertUser(p)

SpecLogin == InitQuiet /\ [][NextLogin]_vars

\* Federated login with a generator that may repeat itself.
NextDraw ==
  \E p \in Procs : GoogleSelectUser(p) \/ GoogleUpsertUserDraw(p) \/ GoogleInsertSession(p)

SpecDraw == InitQuiet /\ [][NextDraw]_vars

\* The token codec applied to every claims object.
NextCodec == CodecSign \/ CodecTick \/ CodecRevoke \/ CodecVerify

SpecCodec == InitCodec /\ [][NextCodec]_vars

\* The email routes from the limiter on; a middleware whose turn has come runs.
EmailRouteStep(p) == EmailRules(p) \/ EmailValidate(p)

NextRoute == \E p \in Procs : EmailLimiter(p) \/ EmailRouteStep(p)

SpecRoute == InitQuiet /\ [][NextRoute]_vars /\ \A p \in Procs : WF_vars(EmailRouteStep(p))

\* ================================================================= claims
TokenStored(t) == SessionsWithToken(sessions, t) # {}

\* C1: sequential rotation.  A refresh presenting a stored, unexpired token T is
\* answered with tokens, and the new refresh token T' differs from T; when its
\* write lands, T' is the token the session holds.  A token that was rotated
\* away is never in storage again, and every refresh presenting it afterwards
\* is answered INVALID_REFRESH_TOKEN with no tokens.
C1_SequentialRotation ==
  /\ \A t \in DOMAIN fate : fate[t] = "rotated" => ~TokenStored(t)
  /\ (last.op = "refresh" /\ last.obs = "valid") =>
        /\ last.result = "OK"
        /\ last.outRT \notin {0, last.tok}
        /\ last.hit => (TokenStored(last.outRT) /\ ~TokenStored(last.tok))
  /\ (last.op = "refresh" /\ last.obs = "rotated") =>
        (last.result = "INVALID_REFRESH_TOKEN" /\ last.outRT = 0)

\* C1 witness: T was rotated to a token still in storage, and a later
\* refresh(T) has just been refused.
C1_Witness ==
  /\ last.op = "refresh" /\ last.obs = "rotated"
  /\ last.result = "INVALID_REFRESH_TOKEN"
  /\ fate[last.tok] = "rotated"
  /\ \E t \in DOMAIN fate : fate[t] = "stored" /\ TokenStored(t)

\* C2: of the refresh calls that present the same token, at most one is
\* answered with tokens; a call whose update affected zero rows is refused.
C2_SingleRefreshWinner ==
  /\ \A t \in DOMAIN wins : wins[t] <= 1
  /\ (last.op = "refresh" /\ last.result = "OK") => last.hit

\* C3: verification codes are single use.  A verifyCode that returned true has
\* marked its row used; a verifyCode that finds an unused live row returns
\* true; once every row stored for (email, code) is used, verifyCode returns
\* false.
C3_CodeSingleUse ==
  /\ \A p \in Procs : (req[p].op = "verify" /\ req[p].isValid) =>
        \A r \in codes : r.id = req[p].rowId => r.used
  /\ \A r \in codes : accepts[r.id] >= 1 => r.used
  /\ (last.op = "verify" /\ last.obs = "match") => last.result # "INVALID_CODE"
  /\ (last.op = "verify" /\ last.obs = "used") => last.result = "INVALID_CODE"

\* C3 witness: a code was accepted once, and a second verifyCode with the same
\* arguments, before the code's expiry, has just returned false.
C3_Witness ==
  /\ last.op = "verify" /\ last.obs = "used" /\ last.result = "INVALID_CODE"
  /\ \E r \in codes : /\ r.email = last.email /\ r.code = last.code
                      /\ r.used /\ accepts[r.id] = 1 /\ now < r.expiresAt

\* C4: of the verifyCode calls that match the same stored row, at most one
\* returns true.
C4_SingleVerifyWinner == \A rid \in DOMAIN accepts : accepts[rid] <= 1

\* C5: logout everywhere.  Right after logout's delete no session of that user
\* is left; a refresh token held by a session that logout deleted is never in
\* storage again, and a refresh presenting it is answered
\* INVALID_REFRESH_TOKEN.
C5_LogoutEverywhere ==
  /\ (last.op = "logout" /\ last.result = "OK") =>
        \A s \in sessions : s.userId # last.at.userId
  /\ \A t \in DOMAIN fate : fate[t] = "loggedout" => ~TokenStored(t)
  /\ (last.op = "refresh" /\ last.obs = "loggedout") =>
        (last.result = "INVALID_REFRESH_TOKEN" /\ last.outRT = 0)

\* C5 witness: a logout deleted two sessions, and a refresh with one of their
\* tokens has just been refused.
C5_Witness ==
  /\ last.op = "refresh" /\ last.obs = "loggedout"
  /\ last.result = "INVALID_REFRESH_TOKEN"
  /\ Cardinality({t \in DOMAIN fate : fate[t] = "loggedout"}) >= 2

\* C6: every successful login, federated or by email code, leaves a session row
\* holding the refresh token it returned.
C6_LoginPersistsSession ==
  (last.op \in {"google", "verify"} /\ last.result = "OK") => TokenStored(last.outRT)

\* C7: a completed logout has put the access token it presented in the
\* revocation registry; a token in the registry verifies as TOKEN_REVOKED at any
\* later time, a request carrying it is rejected with TOKEN_REVOKED, and no step
\* takes a token out of the registry.
C7_RevocationIsPermanent ==
  /\ [](/\ (last.op = "logout" /\ last.result = "OK") => last.at \in blacklist
        /\ \A a \in blacklist : verifyAccessToken(a, now, blacklist) = "TOKEN_REVOKED"
        /\ (last.op = "logout" /\ last.obs = "revoked") => last.result = "TOKEN_REVOKED")
  /\ [][blacklist \subseteq blacklist']_vars

\* C8: federated login creates the user once.  There is at most one user row
\* per identity; while only federated logins have written it, the row exists
\* exactly when a login has, and its loginCount is the number of those logins.
C8_FederatedLoginIdempotent ==
  \A e \in Emails :
    /\ Cardinality({u \in users : u.email = e}) <= 1
    /\ logins[e].mail = 0 =>
         /\ logins[e].fed = 0 => ~HasUser(users, e)
         /\ logins[e].fed > 0 =>
              (HasUser(users, e) /\ SelectUserByEmail(users, e).loginCount = logins[e].fed)

\* C8 witness: the second federated login with the same identity has just
\* completed, and the user's loginCount is 2.
C8_Witness ==
  /\ last.op = "google" /\ last.result = "OK"
  /\ logins[last.email].fed = 2 /\ logins[last.email].mail = 0
  /\ SelectUserByEmail(users, last.email).loginCount = 2

\* C9: verifyCode returns false when the only unused rows stored for
\* (email, code) have expiresAt not later than now, the clock verifyCode read,
\* and leaves them as they were: it never goes on to mark a row.
C9_ExpiredCodeRejected ==
  [][\A p \in Procs :
       (/\ req[p].op = "verify" /\ req[p].pc = "select" /\ req'[p] # req[p]
        /\ \A r \in codes : (r.email = req[p].email /\ r.code = req[p].code /\ ~r.used)
                               => r.expiresAt <= req[p].clock) =>
          /\ req'[p] = Idle /\ last'.op = "verify" /\ last'.result = "INVALID_CODE"
          /\ last'.email = req[p].email /\ last'.code = req[p].code
          /\ codes' = codes]_vars

\* C9 witness: verifyCode has just returned false for a matching, unused row at
\* the very instant expiresAt = now.
C9_Witness ==
  /\ last.op = "verify" /\ last.obs = "expired" /\ last.result = "INVALID_CODE"
  /\ \E r \in codes : /\ r.email = last.email /\ r.code = last.code
                      /\ ~r.used /\ r.expiresAt = now

\* C10: a refresh presenting a token whose session has now >= expiresAt, the
\* instant now = expiresAt included, is answered REFRESH_TOKEN_EXPIRED with no
\* tokens.
C10_ExpiredRefreshRejected ==
  (last.op = "refresh" /\ last.obs \in {"due", "expired"}) =>
     (last.result = "REFRESH_TOKEN_EXPIRED" /\ last.outRT = 0)

\* C11: a refresh whose token is held by no session row is answered
\* INVALID_REFRESH_TOKEN with no tokens and writes no session and no user; only
\* a token some row holds lets the handler go on to its update.
C11_UnknownRefreshRejected ==
  [][/\ \A p \in Procs : (req[p].pc = "idle" /\ req'[p].op = "refresh") =>
            \E s \in sessions : s.refreshToken = req'[p].tok
     /\ (/\ req' = req /\ last'.op = "refresh" /\ last'.tok # 0
         /\ ~\E s \in sessions : s.refreshToken = last'.tok) =>
           /\ last'.result = "INVALID_REFRESH_TOKEN" /\ last'.outRT = 0
           /\ sessions' = sessions /\ users' = users]_vars

\* C11 witness: with a session in storage, a refresh presenting a token that
\* was generated but never stored has just been refused.
C11_Witness ==
  /\ last.op = "refresh" /\ last.obs = "fresh"
  /\ last.result = "INVALID_REFRESH_TOKEN" /\ last.outRT = 0
  /\ sessions # {} /\ users # {}
  /\ \A s \in sessions : s.refreshToken # last.tok

\* C12: every request to an email route that the rate limiter lets through is
\* eventually answered.
C12_EmailRequestAnswered ==
  \A p \in Procs : (req[p].pc = "rules") ~> (req[p].pc = "idle")

\* C13: a verifyCode for which no row has the email, the code, used = false
\* and expiresAt > now (the clock verifyCode read) returns false and leaves
\* every verification-code row as it was; only such a row lets verifyCode go on
\* to its update.
C13_NoMatchNoEffect ==
  [][\A p \in Procs :
       (req[p].op = "verify" /\ req[p].pc = "select" /\ req'[p] # req[p]) =>
          LET hit == {r \in codes : /\ r.email = req[p].email /\ r.code = req[p].code
                                    /\ ~r.used /\ r.expiresAt > req[p].clock}
          IN /\ codes' = codes /\ users' = users
             /\ hit = {} => /\ req'[p] = Idle /\ last'.op = "verify"
                            /\ last'.result = "INVALID_CODE"
             /\ req'[p].pc = "mark" => \E r \in hit : req'[p].rowId = r.id]_vars

\* C13 witness: verifyCode with a wrong code has just returned false while an
\* unused, unexpired row for the same email is in storage.
C13_Witness ==
  /\ last.op = "verify" /\ last.code = WrongCode /\ last.result = "INVALID_CODE"
  /\ \E r \in codes : r.email = last.email /\ ~r.used /\ r.expiresAt > now

\* C14: a run of cleanupExpiredCodes removes exactly the rows with expiresAt
\* before now, the clock the run read when it was called, used or not, and
\* leaves every other row as it was; the call itself removes nothing.
C14_CleanupExact ==
  [][/\ Len(cleaner'.sweeps) > Len(cleaner.sweeps) =>
          /\ cleaner'.sweeps = Append(cleaner.sweeps, now) /\ codes' = codes
     /\ Len(cleaner'.sweeps) < Len(cleaner.sweeps) =>
          \E i \in 1..Len(cleaner.sweeps) :
            /\ cleaner'.sweeps = CleanupReturned(cleaner.sweeps, i)
            /\ codes' = {r \in codes : r.expiresAt >= cleaner.sweeps[i]}]_vars

\* C14 witness: of two rows stored, the sweep has removed the first, expired
\* one and kept the second, whose expiresAt is still ahead.
C14_Witness ==
  /\ Len(accepts) = 2 /\ cleaner.sweeps = <<>>
  /\ \A r \in codes : r.id = 2 /\ r.expiresAt >= now
  /\ Cardinality(codes) = 1 /\ now > CodeTTL

C16_LoginCountMonotonic ==
  [][/\ \A u \in users : \E v \in users' : v.id = u.id /\ v.loginCount >= u.loginCount
     /\ \A v \in users' : v.loginCount >= 0]_vars

\* C17: at most one user row per email and per id, whichever login paths wrote
\* it, and an email has a row exactly when some login for it wrote one.
C17_OneUserPerEmail ==
  /\ \A u, v \in users : (u.email = v.email \/ u.id = v.id) => u = v
  /\ \A e \in Emails : HasUser(users, e) <=> (logins[e].fed + logins[e].mail > 0)

\* C17 witness: one email has logged in through both paths and owns one row,
\* whose loginCount shows that the later login reused it.
C17_Witness ==
  \E e \in Emails :
    /\ logins[e].fed >= 1 /\ logins[e].mail >= 1
    /\ Cardinality({u \in users : u.email = e}) = 1
    /\ SelectUserByEmail(users, e).loginCount >= 2

\* C18: no two session rows hold the same refresh token, whatever values the
\* generator returns.
C18_RefreshTokenUnique ==
  \A s1, s2 \in sessions : s1.refreshToken = s2.refreshToken => s1 = s2

\* C19: a refresh rotates in place.  Its update leaves the number of session
\* rows and every row's id and userId as they were; the row that held the
\* presented token now holds the returned one and expires 7 days (7 times 24
\* hours) after the moment the handler minted the pair; every other row is
\* untouched; and the access token handed out carries the id and email of the
\* session's owner.
C19_RefreshRotatesInPlace ==
  [][\A p \in Procs :
       (req[p].op = "refresh" /\ req[p].pc = "update" /\ req'[p].pc = "idle") =>
         LET r == req[p] IN
         /\ last'.result = "OK" /\ last'.outRT = r.newTok
         /\ Cardinality(sessions') = Cardinality(sessions)
         /\ \A s \in sessions : \E n \in sessions' :
              /\ n.id = s.id /\ n.userId = s.userId
              /\ IF s.refreshToken = r.tok
                   THEN /\ n.refreshToken = last'.outRT
                        /\ n.expiresAt = r.outAT.iat + RefreshDays * MinutesPerDay
                        /\ s.userId = r.outAT.userId
                   ELSE n = s
         /\ r.outAT \in issuedAT'
         /\ \E u \in users : u.id = r.outAT.userId /\ u.email = r.outAT.email]_vars

\* C20: for every claims object with a non-empty userId and email,
\* signAccessToken returns a token, and verifyAccessToken of that token,
\* before its expiry and with the token not revoked, returns the userId and
\* email of the claims.
C20_RoundTripReturnsInput ==
  /\ (req[1].op = "codec" /\ req[1].uid # 0 /\ req[1].email # "") =>
        req[1].pc \in {"claims", "signed"}
  /\ (/\ last.op = "verifyAccessToken" /\ last.at = req[1].outAT
      /\ now < req[1].outAT.iat + AccessTTL /\ last.obs # "revoked") =>
        /\ last.result = "OK"
        /\ last.payload.userId = req[1].uid /\ last.payload.email = req[1].email

\* C21: verifyAccessToken returns no claims for a token signed with another
\* secret or verified once its lifetime has elapsed (now >= iat + 15 min); when
\* the token is not revoked the error is INVALID_TOKEN for the foreign
\* signature and TOKEN_EXPIRED for the elapsed lifetime.
C21_ForgedOrExpiredRejected ==
  last.op = "verifyAccessToken" =>
    /\ (last.at.secret # JWT_SECRET \/ now >= last.at.iat + AccessTTL) =>
          last.result # "OK" /\ last.payload = NoPayload
    /\ (last.obs # "revoked" /\ last.at.secret # JWT_SECRET) =>
          last.result = "INVALID_TOKEN"
    /\ (last.obs # "revoked" /\ last.at.secret = JWT_SECRET
          /\ now >= last.at.iat + AccessTTL) => last.result = "TOKEN_EXPIRED"

\* A genuine token verified in the very minute its lifetime ends.
C21_Witness ==
  /\ last.op = "verifyAccessToken" /\ last.at.secret = JWT_SECRET
  /\ now = last.at.iat + AccessTTL /\ last.result = "TOKEN_EXPIRED"

\* C22: signAccessToken fails with INVALID_TOKEN_PAYLOAD and produces no token
\* whenever the claims it is given lack userId or email, whoever calls it: the
\* call is rejected exactly for those claims, and no token without them exists.
C22_InvalidPayloadRejected ==
  LET r == req[1]
      bad == r.uid = 0 \/ r.email = ""
  IN /\ r.op = "codec" /\ bad => r.pc \in {"claims", "rejected"}
     /\ r.pc = "rejected" =>
          /\ bad /\ r.outAT = NoToken /\ issuedAT = {}
          /\ last.result = "INVALID_TOKEN_PAYLOAD"
     /\ r.pc = "signed" => ~bad /\ r.outAT \in issuedAT
     /\ \A t \in issuedAT : t.userId # 0 /\ t.email # ""

\* A caller that passes a userId and no email, as signAccessToken({userId}).
C22_Witness ==
  /\ req[1].pc = "rejected" /\ req[1].uid # 0 /\ req[1].email = ""
  /\ last.result = "INVALID_TOKEN_PAYLOAD" /\ issuedAT = {}

\* C23: a code request adds exactly one row to verification_codes, for the
\* requested email, unused, expiring 15 minutes after the moment the request
\* read the clock, whose code is six decimal digits with a leading digit of
\* 1..9 (an integer in 100000..999999); the row is stored before the email is
\* dispatched, dispatching adds none, and a request whose insert fails stores
\* nothing and dispatches nothing.
C23_RequestAddsOneCode ==
  [][\A p \in Procs :
       /\ (req[p].pc = "idle" /\ req'[p].op = "request") =>
            /\ codes' = codes /\ req'[p].pc = "insert" /\ last'.op = "none"
            /\ req'[p].clock = now /\ req'[p].expiry = now + CodeTTL
       /\ (req[p].op = "request" /\ req[p].pc = "insert" /\ req'[p].pc = "send") =>
            /\ codes \subseteq codes' /\ Cardinality(codes' \ codes) = 1
            /\ \A row \in codes' \ codes :
                 /\ row.email = req[p].email /\ row.used = FALSE
                 /\ row.expiresAt = req[p].clock + CodeTTL
                 /\ row.code = req[p].code
                 /\ Len(row.code) = 6 /\ row.code[1] \in 1..9
                 /\ \A i \in 1..Len(row.code) : row.code[i] \in 0..9
            /\ last'.op = "none"
       /\ (req[p].op = "request" /\ req[p].pc = "insert" /\ req'[p].pc = "idle") =>
            /\ codes' = codes /\ last'.op = "request" /\ last'.result = "SEND_FAILED"
       /\ (req[p].op = "request" /\ req[p].pc = "send" /\ req'[p].pc = "idle") =>
            /\ codes' = codes /\ last'.op = "request"
            /\ \E row \in codes : row.email = req[p].email /\ row.code = req[p].code]_vars

\* A request whose insert was committed 15 minutes after it read the clock:
\* its row is stored, expiring at this very minute, its email not yet
\* dispatched.
C23_Witness ==
  \E p \in Procs :
    /\ req[p].op = "request" /\ req[p].pc = "send" /\ now > 0
    /\ \E row \in codes : /\ row.email = req[p].email /\ row.code = req[p].code
                           /\ row.expiresAt = now /\ ~row.used

\* C24: a store failure inside cleanupExpiredCodes is swallowed: no error
\* leaves the call, the failing sweep changes no row and no request, the
\* interval stays set so that later sweeps run, and a code request made after
\* the failure stores its row and is answered as usual.
C24_CleanupFailureSwallowed ==
  [][/\ ~cleaner'.raised
     /\ cleaner'.failed => cleaner'.interval
     /\ (~cleaner.failed /\ cleaner'.failed) =>
          /\ Len(cleaner'.sweeps) = Len(cleaner.sweeps) - 1
          /\ cleaner'.interval = cleaner.interval /\ cleaner'.timers = cleaner.timers
          /\ codes' = codes /\ req' = req
     /\ \A p \in Procs :
          /\ (cleaner.failed /\ req[p].pc = "idle" /\ req'[p].op = "request") =>
               req'[p].pc = "insert"
          /\ (cleaner.failed /\ req[p].op = "request" /\ req[p].pc = "insert"
                /\ req'[p].pc = "send") =>
               (Cardinality(codes' \ codes) = 1 /\ codes \subseteq codes')]_vars

\* After a failed sweep a request was stored and answered, and a later sweep
\* of the same interval has removed an expired row.
C24_Witness ==
  /\ cleaner.failed /\ cleaner.interval /\ cleaner.sweeps = <<>> /\ ~cleaner.raised
  /\ Len(accepts) = 2 /\ Cardinality(codes) = 1
  /\ last.op = "request" /\ last.result = "OK"
  /\ \A p \in Procs : req[p].pc = "idle"

\* C25: a refresh that found its session and whose write comes after a logout
\* has deleted that session is answered INVALID_REFRESH_TOKEN without tokens,
\* and no session holds the presented token afterwards.
C25_RefreshLosesToLogout ==
  (/\ last.op = "refresh" /\ last.tok # 0
   /\ last.obs = "valid" /\ fate[last.tok] = "loggedout") =>
     /\ last.result = "INVALID_REFRESH_TOKEN" /\ last.outRT = 0
     /\ ~\E s \in sessions : s.refreshToken = last.tok

\* C26: once every login begun has completed successfully (each federated
\* user write was followed by its session insert, no request is in flight),
\* a user's loginCount equals the number of that user's logins, federated and
\* by email code together.
C26_LoginCountEqualsLogins ==
  (\A p \in Procs : req[p].pc = "idle") =>
    \A u \in users :
      Cardinality({s \in sessions : s.userId = u.id}) = logins[u.email].fed =>
        u.loginCount = logins[u.email].fed + logins[u.email].mail

\* C27: a logout request has an effect only if its Authorization header
\* carries, after the scheme word Bearer, an access token that has a valid
\* signature, is unexpired, carries userId and email and is not revoked; the
\* registry grows only by the token of such a request, and session rows
\* disappear only in the delete of such a request, all of them owned by the
\* userId in its token.
C27_LogoutOnlyForBearerToken ==
  [][/\ \A p \in Procs :
          (req[p].pc = "idle" /\ req'[p].op = "logout" /\ req'[p].pc = "delete") =>
            LET at == req'[p].at IN
            /\ req'[p].scheme = "Bearer"
            /\ at.secret = JWT_SECRET /\ now < at.iat + AccessTTL
            /\ at.userId # 0 /\ at.email # "" /\ at \notin blacklist
     /\ blacklist' # blacklist =>
          \E p \in Procs : /\ req[p].pc = "idle" /\ req'[p].op = "logout"
                           /\ req'[p].pc = "delete" /\ req'[p].scheme = "Bearer"
                           /\ blacklist' = blacklist \cup {req'[p].at}
     /\ {s.id : s \in sessions} \ {s.id : s \in sessions'} # {} =>
          \E p \in Procs : /\ req[p].op = "logout" /\ req[p].pc = "delete"
                           /\ req[p].scheme = "Bearer" /\ req'[p].pc = "idle"
                           /\ \A s \in sessions :
                                (\A n \in sessions' : n.id # s.id) =>
                                   s.userId = req[p].at.userId]_vars

\* C28: logout's delete leaves every session of another user as it is, and a
\* refresh's write changes at most one row, the one holding the presented
\* token: every row holding another token stays as it is and no row is added.
C28_OtherRowsUntouched ==
  [][\A p \in Procs :
       /\ (req[p].op = "logout" /\ req[p].pc = "delete" /\ req'[p].pc = "idle") =>
            /\ \A s \in sessions : s.userId # req[p].at.userId => s \in sessions'
            /\ sessions' \subseteq sessions
       /\ (req[p].op = "refresh" /\ req[p].pc = "update" /\ req'[p].pc = "idle") =>
            /\ \A s \in sessions : s.refreshToken # req[p].tok => s \in sessions'
            /\ Cardinality(sessions \ sessions') <= 1
            /\ {n.id : n \in sessions'} = {s.id : s \in sessions}]_vars

\* One user's session was rotated, and the other user's logout has just
\* deleted that user's session and left the rotated one stored.
C28_Witness ==
  /\ last.op = "logout" /\ last.result = "OK" /\ last.hit
  /\ \E t \in DOMAIN fate : fate[t] = "rotated"
  /\ \E s \in sessions : s.userId # last.at.userId /\ fate[s.refreshToken] = "stored"

\* C29: a protected route reports an access-token failure by its kind: a
\* revoked token is answered TOKEN_REVOKED, an expired one TOKEN_EXPIRED, and
\* a token with a foreign signature gets the answer for an invalid token,
\* which is neither of those two and is never given to an expired token.
C29_FailuresReportedByKind ==
  (last.op \in {"authenticateToken", "authenticateToken (auth.middleware.ts)"}
     /\ last.at # NoToken) =>
    LET plain == last.op # "authenticateToken"
        invalid == IF plain THEN "403 Invalid or expired token" ELSE "INVALID_TOKEN"
    IN /\ last.obs = "revoked" => last.result = "TOKEN_REVOKED"
       /\ (last.obs # "revoked" /\ last.at.secret # JWT_SECRET) =>
             last.result = invalid /\ invalid \notin {"TOKEN_REVOKED", "TOKEN_EXPIRED"}
       /\ (last.obs # "revoked" /\ last.at.secret = JWT_SECRET
             /\ now >= last.at.iat + AccessTTL) =>
             last.result = "TOKEN_EXPIRED" /\ last.result # invalid

\* C30: verifyEmailCode answers a code that matches a stored, unused row whose
\* expiry has passed with an expiry error, not with the error it gives for a
\* wrong or unknown code.
C30_ExpiredCodeReportedAsExpired ==
  (last.op = "verify" /\ last.obs = "expired") =>
    last.result = "CODE_EXPIRED" /\ last.result # "INVALID_CODE"

\* C31: a callback whose authorization code is missing or not a string is
\* answered INVALID_AUTH_CODE, and no user or session has been created by it.
C31_BadAuthCodeReported ==
  (last.op = "google" /\ last.obs \in {"missing", "list"}) =>
    last.result = "INVALID_AUTH_CODE"

\* C32: a protected route called without a usable Bearer header (no
\* Authorization header, another scheme, or no token after the scheme) is
\* answered AUTH_HEADER_MISSING or INVALID_AUTH_FORMAT.
C32_HeaderErrorsReported ==
  (last.op = "authenticateToken" /\ last.at = NoToken) =>
    last.result \in {"AUTH_HEADER_MISSING", "INVALID_AUTH_FORMAT"}

\* C33: verifyAccessToken does not look at the revocation registry: for a
\* given token and time its result is what it would be with an empty registry.
C33_VerifyIgnoresRegistry ==
  last.op = "verifyAccessToken" => last.result = verifyAccessToken(last.at, now, {})

\* C34: startCleanupSchedule starts one sweep at once and leaves exactly one
\* interval set, also when it is called again; a sweep begins only at a
\* start or at a callback of the interval that is set, one at a time, whatever
\* earlier sweeps are still pending; at no time is more than one interval
\* live, and after stopCleanupSchedule none is.
C34_OneCleanupTimer ==
  [][/\ cleaner'.timers <= 1
     /\ cleaner'.interval <=> cleaner'.timers = 1
     /\ cleaner'.started = cleaner.started + 1 =>
          /\ cleaner'.sweeps = Append(cleaner.sweeps, now)
          /\ cleaner'.interval /\ cleaner'.timers = 1
     /\ Len(cleaner'.sweeps) > Len(cleaner.sweeps) =>
          /\ cleaner'.sweeps = Append(cleaner.sweeps, now)
          /\ cleaner'.interval
          /\ cleaner.interval \/ cleaner'.started = cleaner.started + 1
     /\ (cleaner.interval /\ ~cleaner'.interval) =>
          /\ cleaner'.timers = 0 /\ cleaner'.started = cleaner.started
          /\ cleaner'.sweeps = cleaner.sweeps]_vars

\* The schedule was started twice and then stopped while the sweeps of both
\* starts were still pending; no interval is left.
C34_Witness ==
  /\ cleaner.started = 2 /\ ~cleaner.interval /\ cleaner.timers = 0
  /\ Len(cleaner.sweeps) = 2

\* C35: when the mail dispatch of a code request fails, the caller is
\* answered with a failure and the row stored before the dispatch stays as it
\* was; with every dispatch failing, a verifyCode that presents the email and
\* code of a stored, unused row not expired at the clock it read goes on to
\* mark such a row and returns true.
C35_FailedSendKeepsCode ==
  [][\A p \in Procs :
       /\ (req[p].op = "request" /\ req[p].pc = "send" /\ req'[p].pc = "idle") =>
            /\ last'.op = "request" /\ last'.result = "SEND_FAILED"
            /\ codes' = codes
            /\ \E row \in codes' : /\ row.email = req[p].email /\ row.code = req[p].code
       /\ (/\ req[p].op = "verify" /\ req[p].pc = "select" /\ req'[p] # req[p]
           /\ \E row \in codes : /\ row.email = req[p].email /\ row.code = req[p].code
                                  /\ ~row.used /\ row.expiresAt > req[p].clock) =>
            /\ req'[p].pc = "mark"
            /\ \E row \in codes : /\ row.id = req'[p].rowId /\ ~row.used
                                  /\ row.email = req[p].email /\ row.code = req[p].code
       /\ (req[p].op = "verify" /\ req[p].pc = "mark" /\ req'[p] # req[p]) =>
            req'[p].isValid
       /\ (req[p].op = "verify" /\ req[p].isValid /\ req'[p] = Idle) =>
            last'.op = "verify" /\ last'.result = "TRUE"]_vars

\* Every dispatch has failed, and a verifyCode with a code whose dispatch
\* failed has just returned true.
C35_Witness ==
  /\ last.op = "verify" /\ last.result = "TRUE"
  /\ \A p \in Procs : req[p].pc = "idle"
  /\ \E row \in codes : row.email = last.email /\ row.code = last.code /\ row.used

\* C36: no step of a code request changes or removes a stored row, so an
\* unused, unexpired code requested earlier for the same email is still there
\* after a newer one is stored, and a verifyCode is refused only when no
\* unused row holds the presented email and code and expires after the clock
\* it read.
C36_RequestKeepsEarlierCodes ==
  [][\A p \in Procs :
       /\ (req'[p] # req[p] /\ "request" \in {req[p].op, req'[p].op}) =>
            \A row \in codes : row \in codes'
       /\ (/\ req[p].op = "verify" /\ req[p].pc = "select" /\ req'[p] = Idle
           /\ last'.result = "INVALID_CODE") =>
            \A row \in codes :
              (row.email = req[p].email /\ row.code = req[p].code) =>
                row.used \/ row.expiresAt <= req[p].clock]_vars

\* Two codes stored for one email, the newer one unused and unexpired, while
\* a verify has found the older one and is about to mark it.
C36_Witness ==
  \E p \in Procs : \E old, new \in codes :
    /\ req[p].op = "verify" /\ req[p].pc = "mark" /\ req[p].rowId = old.id
    /\ old.id < new.id /\ old.email = new.email /\ old.code # new.code
    /\ ~old.used /\ ~new.used /\ old.expiresAt > now /\ new.expiresAt > now

\* C37: a sweep removes only rows whose expiry lies before now, and it removes
\* no row that a verifyCode in flight is about to accept: one that is unused,
\* holds the email and code presented and expires after the clock that
\* verifyCode read.
C37_SweepSparesAcceptableCodes ==
  [][/\ \A row \in codes :
          (\A n \in codes' : n.id # row.id) => row.expiresAt < now
     /\ \A p \in Procs :
          (req[p].op = "verify" /\ req[p].pc = "select") =>
            \A row \in codes :
              (/\ row.email = req[p].email /\ row.code = req[p].code
               /\ ~row.used /\ row.expiresAt > req[p].clock) =>
                 \E n \in codes' : n.id = row.id]_vars

\* C38: the revocation registry grows only at a logout, by the one access
\* token that logout presented; login and refresh add nothing to it, so every
\* issued access token that is unexpired and was not itself presented at a
\* logout still verifies, other tokens of a logged-out user included.
C38_RegistryGainsOnlyLogoutToken ==
  [][/\ blacklist \subseteq blacklist'
     /\ blacklist' # blacklist =>
          \E p \in Procs : /\ req[p].pc = "idle"
                           /\ req'[p].op = "logout" /\ req'[p].pc = "delete"
                           /\ blacklist' \ blacklist = {req'[p].at}
     /\ \A t \in issuedAT' :
          (t \notin blacklist' /\ now' < t.iat + AccessTTL) =>
            verifyAccessToken(t, now', blacklist') = "OK"]_vars

\* A user's logout has revoked one access token while a later, unexpired
\* access token of the same user is outside the registry.
C38_Witness ==
  /\ last.op = "logout" /\ last.result = "OK" /\ last.at \in blacklist
  /\ \E t \in issuedAT : /\ t.userId = last.at.userId /\ t # last.at
                          /\ t \notin blacklist /\ now < t.iat + AccessTTL
                          /\ verifyAccessToken(t, now, blacklist) = "OK"

\* C39: in the email-code login the row is marked used before the user is
\* looked up; when the user step then fails, the caller gets a failure without
\* tokens, no user and no token is created, the row stays used, and a verify
\* goes ahead only on a row that is unused and not expired at the clock it
\* read, so presenting the consumed row again is refused.
C39_CodeSpentBeforeLogin ==
  [][\A p \in Procs :
       /\ (req'[p].op = "verify" /\ req'[p].pc \in {"selectUser", "upsertUser"}) =>
            \A row \in codes' : row.id = req'[p].rowId => row.used
       /\ (req[p].op = "verify" /\ req[p].pc = "upsertUser"
              /\ last'.op = "verify" /\ last'.result # "OK") =>
            /\ last'.outRT = 0 /\ issuedAT' = issuedAT /\ users' = users
            /\ codes' = codes
            /\ \A row \in codes' : row.id = req[p].rowId => row.used
       /\ (req[p].op = "verify" /\ req[p].pc = "select" /\ req'[p].pc = "mark") =>
            \E row \in codes : /\ row.id = req'[p].rowId /\ ~row.used
                                /\ row.email = req[p].email /\ row.code = req[p].code
                                /\ row.expiresAt > req[p].clock
       /\ (/\ req[p].op = "verify" /\ req[p].pc = "select" /\ req'[p] # req[p]
           /\ \A row \in codes : (row.email = req[p].email /\ row.code = req[p].code)
                                    => row.used) =>
            /\ req'[p] = Idle /\ last'.op = "verify" /\ last'.result = "INVALID_CODE"]_vars

\* A login by code has failed at the user insert; its row is stored and used.
C39_Witness ==
  /\ last.op = "verify" /\ last.result = "VERIFY_FAILED" /\ last.outRT = 0
  /\ \E row \in codes : row.email = last.email /\ row.code = last.code /\ row.used
  /\ ~\E row \in codes : row.email = last.email /\ row.code = last.code /\ ~row.used

====
